---- MODULE Spec2Model ----
(***************************************************************************)
(* Model of tilelang/tools/tilesight/arch: ComputeUnit, the Arch base      *)
(* class with its derived-metric passes, and the three concrete devices    *)
(* H100_PCIE, H100_SXM and MI250X with their configuration modes.          *)
(*                                                                         *)
(* A Python instance is a function from the names of the attributes it     *)
(* currently has to their values: hasattr(self, a) is a \in DOMAIN self,   *)
(* an assignment self.a = v adds or overwrites a, and reading an attribute *)
(* the instance does not have raises AttributeError.                       *)
(*                                                                         *)
(* Numbers are exact and scaled by powers of ten the formulas commute      *)
(* with: frequencies in MHz (1.755 * 1e9 Hz is 1755), throughputs in 1e6   *)
(* operations/s, bandwidths in 1e6 bytes/s (2039 * 1e9 is 2039000),        *)
(* capacities in KiB, utilization ceilings in percent (0.9 is 90).         *)
(***************************************************************************)
EXTENDS Integers, Sequences, FiniteSets, TLC

VARIABLES
    dev,          \* the concrete class of the instance
    obj,          \* the instance: attribute name -> value
    exc,          \* "none", or the exception the last call raised
    last,         \* the last method that ran on the instance
    repeated,     \* the last method is the one that ran before it too
    constructed,  \* the device's __init__ has returned
    nassign,      \* the number of direct assignments callers have made
    cu,           \* a ComputeUnit built directly by a caller
    cf_self,      \* cu as the last calculate_flops call received it, NoneUnit before
    cf_args,      \* <<sm_count, freq_hz>> of the last calculate_flops call on cu
    cf_ret,       \* what that call returned
    req,          \* the name create_device_arch was called with, "none" before
    tvm,          \* the runtime's devices: the names of its cuda and rocm devices
    gdn           \* the last get_device_name call: its argument and outcome

vars == <<dev, obj, exc, last, repeated, constructed, nassign, cu, cf_self, cf_args, cf_ret,
          req, tvm, gdn>>

archVars == <<dev, obj, exc, last, repeated, constructed, nassign, req, tvm, gdn>>
cuVars == <<cu, cf_self, cf_args, cf_ret>>

\* ---------------------------------------------------------------- bounds

\* A caller assigns sm_count, freq, l1_smem_throughput_per_cycle or
\* sm_sub_partitions directly at most MaxAssigns times on one instance.
MaxAssigns == 2
\* Directly built compute units: instances and ops_per_element in
\* 1 .. MaxCount, shape entries in 1 .. MaxDim, shapes of length <= MaxShapeLen.
MaxCount == 2
MaxDim == 2
MaxShapeLen == 2
\* calculate_flops arguments on such a unit: -1 .. MaxArg.
MaxArg == 2
\* The runtime has at most MaxDevices devices of each kind; get_device_name is
\* called with an index in 0 .. MaxDevices.
MaxDevices == 2

\* ------------------------------------------------------- attribute access

HasAttr(self, a) == a \in DOMAIN self

\* self.a = v
SetAttr(self, a, v) == (a :> v) @@ self

\* a run of assignments self.a = upd[a], one per name in DOMAIN upd
Assign(self, upd) == upd @@ self

\* ------------------------------------------------------------ ComputeUnit

\* A slot holding None.
NoneUnit ==
    [unit_type |-> "None", dtype |-> "None", instances |-> 0,
     shape |-> <<>>, ops_per_element |-> 0]

\* ComputeUnit.__init__; the shape argument is {} for None and {s} for a list s.
ComputeUnit(unit_type, dtype, instances, shape, ops_per_element) ==
    [unit_type |-> unit_type,
     dtype |-> dtype,
     instances |-> instances,
     shape |-> IF shape # {} THEN CHOOSE s \in shape : TRUE ELSE <<>>,
     ops_per_element |-> ops_per_element]

RECURSIVE math_prod(_)
math_prod(s) == IF s = <<>> THEN 1 ELSE Head(s) * math_prod(Tail(s))

calculate_flops_or_as_and(self, sm_count, freq_hz) ==
    IF sm_count <= 0 /\ freq_hz <= 0
    THEN 0
    ELSE LET shape_product == IF self.shape # <<>> THEN math_prod(self.shape) ELSE 1
             ops_per_sm_per_cycle == self.instances * shape_product * self.ops_per_element
         IN  ops_per_sm_per_cycle * sm_count * freq_hz

calculate_flops_no_ops(self, sm_count, freq_hz) ==
    IF sm_count <= 0 \/ freq_hz <= 0
    THEN 0
    ELSE LET shape_product == IF self.shape # <<>> THEN math_prod(self.shape) ELSE 1
             ops_per_sm_per_cycle == self.instances * shape_product
         IN  ops_per_sm_per_cycle * sm_count * freq_hz

calculate_flops(self, sm_count, freq_hz) ==
    IF sm_count <= 0 \/ freq_hz <= 0
    THEN 0
    ELSE LET shape_product == IF self.shape # <<>> THEN math_prod(self.shape) ELSE 1
             ops_per_sm_per_cycle == self.instances * shape_product * self.ops_per_element
         IN  ops_per_sm_per_cycle * sm_count * freq_hz

\* Truth value of a slot: None is false, every ComputeUnit object is true.
Truthy(unit) == unit # NoneUnit

\* ------------------------------------------------------------------- Arch

Arch__init__ ==
    [core |-> "None",
     sm_count |-> 0,
     freq |-> 0,
     ddr_bandwidth |-> 0,
     ddr_capacity |-> 0,
     l2_bandwidth |-> 0,
     l2_capacity |-> 0,
     l2_partitions |-> 1,
     sm_sub_partitions |-> 0,
     l1_smem_throughput_per_cycle |-> 0,
     configurable_smem_capacity |-> 0,
     register_capacity_per_sm |-> 0,
     fp16_tensor_core_unit |-> NoneUnit,
     fp32_cuda_core_unit |-> NoneUnit,
     sfu_unit |-> NoneUnit,
     fp16_tensor_flops |-> 0,
     fp32_cuda_core_flops |-> 0,
     sfu_flops |-> 0,
     smem_bandwidth |-> 0,
     register_bandwidth |-> 0,
     ddr_max_util |-> 90,
     l2_max_util |-> 90,
     l1_max_util |-> 90,
     compute_max_util |-> 90]

\* One if/else block of compute_flops on a slot Arch.__init__ declares.
FlopsBlock(self, unit, field) ==
    IF Truthy(self[unit]) /\ self.sm_count > 0 /\ self.freq > 0
    THEN SetAttr(self, field, calculate_flops(self[unit], self.sm_count, self.freq))
    ELSE SetAttr(self, field, 0)

FlopsBlockOpt_skip_absent(self, unit, field) ==
    IF HasAttr(self, unit)
    THEN IF Truthy(self[unit]) /\ self.sm_count > 0 /\ self.freq > 0
         THEN SetAttr(self, field, calculate_flops(self[unit], self.sm_count, self.freq))
         ELSE SetAttr(self, field, 0)
    ELSE self

FlopsBlockOpt_keep_stale(self, unit, field) ==
    IF HasAttr(self, unit) /\ Truthy(self[unit]) /\ self.sm_count > 0 /\ self.freq > 0
    THEN SetAttr(self, field, calculate_flops(self[unit], self.sm_count, self.freq))
    ELSE IF HasAttr(self, field) THEN self ELSE SetAttr(self, field, 0)

\* One if/else block of compute_flops on a slot only some devices create.
FlopsBlockOpt(self, unit, field) ==
    IF HasAttr(self, unit) /\ Truthy(self[unit]) /\ self.sm_count > 0 /\ self.freq > 0
    THEN SetAttr(self, field, calculate_flops(self[unit], self.sm_count, self.freq))
    ELSE SetAttr(self, field, 0)

Arch_compute_flops(self) ==
    LET s1 == FlopsBlock(self, "fp16_tensor_core_unit", "fp16_tensor_flops")
        s2 == FlopsBlockOpt(s1, "fp8_tensor_core_unit", "fp8_tensor_flops")
        s3 == FlopsBlockOpt(s2, "fp4_tensor_core_unit", "fp4_tensor_flops")
        s4 == FlopsBlock(s3, "fp32_cuda_core_unit", "fp32_cuda_core_flops")
        s5 == FlopsBlockOpt(s4, "fp16_cuda_core_unit", "fp16_cuda_core_flops")
        s6 == FlopsBlockOpt(s5, "fp64_cuda_core_unit", "fp64_cuda_core_flops")
        s7 == FlopsBlockOpt(s6, "int32_cuda_core_unit", "int32_cuda_core_flops")
    IN  FlopsBlock(s7, "sfu_unit", "sfu_flops")

Arch_compute_bandwidth_one_guard(self) ==
    LET ok == self.sm_count > 0 /\ self.freq > 0
                /\ self.l1_smem_throughput_per_cycle > 0 /\ self.sm_sub_partitions > 0
        s1 == IF ok
              THEN SetAttr(self, "smem_bandwidth",
                           self.sm_count * self.freq * self.l1_smem_throughput_per_cycle)
              ELSE SetAttr(self, "smem_bandwidth", 0)
    IN  IF ok
        THEN SetAttr(s1, "register_bandwidth",
                     self.sm_count * self.freq * self.sm_sub_partitions * 32 * 4)
        ELSE SetAttr(s1, "register_bandwidth", 0)

Arch_compute_bandwidth(self) ==
    LET s1 == IF self.sm_count > 0 /\ self.freq > 0 /\ self.l1_smem_throughput_per_cycle > 0
              THEN SetAttr(self, "smem_bandwidth",
                           self.sm_count * self.freq * self.l1_smem_throughput_per_cycle)
              ELSE SetAttr(self, "smem_bandwidth", 0)
    IN  IF s1.sm_count > 0 /\ s1.freq > 0 /\ s1.sm_sub_partitions > 0
        THEN SetAttr(s1, "register_bandwidth",
                     s1.sm_count * s1.freq * s1.sm_sub_partitions * 32 * 4)
        ELSE SetAttr(s1, "register_bandwidth", 0)

\* The compute-throughput pass alone.
Arch_compute_metrics_flops_only(self) == Arch_compute_flops(self)

Arch_compute_metrics(self) == Arch_compute_bandwidth(Arch_compute_flops(self))

\* What a method leaves behind: the instance, and the exception it raised if any.
Return(self) == [obj |-> self, exc |-> "none"]
Raise(self, e) == [obj |-> self, exc |-> e]

\* -------------------------------------------------------------- H100_PCIE

H100_PCIE_set_to_spec(self) ==
    LET s1 == Assign(self,
                [core |-> "H100_PCIE",
                 sm_count |-> 114,
                 freq |-> 1755,
                 ddr_bandwidth |-> 2039000,
                 ddr_capacity |-> 80 * 1024 * 1024,
                 l2_bandwidth |-> 7598470,
                 l2_capacity |-> 50 * 1024,
                 l2_partitions |-> 2,
                 sm_sub_partitions |-> 4,
                 l1_smem_throughput_per_cycle |-> 128,
                 configurable_smem_capacity |-> 228,
                 register_capacity_per_sm |-> 256,
                 warp_schedulers_per_sm |-> 4,
                 fp16_tensor_core_unit |-> NoneUnit,
                 fp32_cuda_core_unit |-> NoneUnit,
                 sfu_unit |-> NoneUnit,
                 fp16_tensor_flops |-> 0,
                 fp32_cuda_core_flops |-> 0,
                 sfu_flops |-> 0,
                 smem_bandwidth |-> 0,
                 register_bandwidth |-> 0,
                 ddr_max_util |-> 90,
                 l2_max_util |-> 90,
                 l1_max_util |-> 90,
                 compute_max_util |-> 90,
                 base_freq |-> 1420])
    IN  \* line 58, self.freq = self.max_freq: set_to_spec never assigns max_freq
        IF ~HasAttr(s1, "max_freq")
        THEN Raise(s1, "AttributeError")
        ELSE LET s2 == Assign(s1,
                         [freq |-> s1.max_freq,
                          fp16_tensor_core_unit |->
                              ComputeUnit("tensor", "fp16", 4, {<<8, 4, 16>>}, 2),
                          fp8_tensor_core_unit |->
                              ComputeUnit("tensor", "fp8", 4, {<<8, 4, 16>>}, 2),
                          fp32_cuda_core_unit |->
                              ComputeUnit("vector", "fp32", 128, {<<>>}, 2),
                          int32_cuda_core_unit |->
                              ComputeUnit("vector", "int32", 64, {<<>>}, 2),
                          fp16_cuda_core_unit |->
                              ComputeUnit("vector", "fp16", 128, {<<>>}, 2),
                          fp64_cuda_core_unit |->
                              ComputeUnit("vector", "fp64", 64, {<<>>}, 2),
                          sfu_unit |-> ComputeUnit("sfu", "fp32", 16, {<<>>}, 2),
                          ddr_max_util |-> 90,
                          l2_max_util |-> 90,
                          l1_max_util |-> 90,
                          compute_max_util |-> 90])
                 s3 == Arch_compute_metrics(s2)
             IN  Return(SetAttr(s3, "int8_flops", s3.fp16_tensor_flops * 2))

H100_PCIE_set_to_microbench(self) ==
    LET s1 == Assign(self,
                [base_freq |-> 1420,
                 max_freq |-> 1420,
                 freq |-> 1420,
                 ddr_max_util |-> 100,
                 l2_max_util |-> 100,
                 l1_max_util |-> 100,
                 compute_max_util |-> 100,
                 ddr_bandwidth |-> 1864220,
                 l2_bandwidth |-> 7598480,
                 smem_bandwidth |-> 20720600])
        s2 == Arch_compute_metrics(s1)
    IN  Return(SetAttr(s2, "int8_flops", s2.fp16_tensor_flops * 2))

H100_PCIE_set_to_ncu(self) ==
    LET s1 == Assign(self,
                [base_freq |-> 1060,
                 max_freq |-> 1060,
                 freq |-> 1060,
                 ddr_max_util |-> 90,
                 l2_max_util |-> 90,
                 l1_max_util |-> 90,
                 compute_max_util |-> 90])
        s2 == Arch_compute_metrics(s1)
    IN  Return(SetAttr(s2, "int8_flops", s2.fp16_tensor_flops * 2))

\* --------------------------------------------------------------- H100_SXM

H100_SXM_set_to_spec(self) ==
    LET s1 == Assign(self,
                [core |-> "H100_SXM",
                 sm_count |-> 132,
                 freq |-> 1830,
                 ddr_bandwidth |-> 3352320,
                 ddr_capacity |-> 90 * 1024 * 1024,
                 l2_bandwidth |-> 8748000,
                 l2_capacity |-> 50 * 1024,
                 l2_partitions |-> 2,
                 sm_sub_partitions |-> 4,
                 l1_smem_throughput_per_cycle |-> 128,
                 configurable_smem_capacity |-> 228,
                 register_capacity_per_sm |-> 256,
                 fp16_tensor_core_unit |->
                     ComputeUnit("tensor", "fp16", 4, {<<8, 4, 16>>}, 2),
                 fp8_tensor_core_unit |->
                     ComputeUnit("tensor", "fp8", 4, {<<8, 4, 32>>}, 2),
                 fp32_cuda_core_unit |-> ComputeUnit("vector", "fp32", 128, {<<1>>}, 2),
                 fp16_cuda_core_unit |-> ComputeUnit("vector", "fp16", 128, {<<1>>}, 2),
                 fp64_cuda_core_unit |-> ComputeUnit("vector", "fp64", 64, {<<1>>}, 2),
                 sfu_unit |-> ComputeUnit("vector", "fp32", 16, {<<1>>}, 2),
                 ddr_max_util |-> 90,
                 l2_max_util |-> 90,
                 l1_max_util |-> 90,
                 compute_max_util |-> 90])
    IN  Return(Arch_compute_metrics(s1))

H100_SXM_set_to_microbench(self) == Return(self)

H100_SXM_set_to_ncu_compute_first(self) ==
    LET s1 == Arch_compute_metrics(self)
    IN  Return(Assign(s1,
                [freq |-> 1440,
                 ddr_max_util |-> 90,
                 l2_max_util |-> 90,
                 l1_max_util |-> 90,
                 compute_max_util |-> 90]))

H100_SXM_set_to_ncu(self) ==
    LET s1 == Assign(self,
                [freq |-> 1440,
                 ddr_max_util |-> 90,
                 l2_max_util |-> 90,
                 l1_max_util |-> 90,
                 compute_max_util |-> 90])
    IN  Return(Arch_compute_metrics(s1))

\* ----------------------------------------------------------------- MI250X

MI250X_set_to_spec(self) ==
    LET s1 == Assign(self,
                [core |-> "MI250X",
                 sm_count |-> 110,
                 freq |-> 2100,
                 ddr_bandwidth |-> 1600000,
                 ddr_capacity |-> 64 * 1024 * 1024,
                 l2_bandwidth |-> 3200000,
                 l2_capacity |-> 8 * 1024,
                 l2_partitions |-> 1,
                 sm_sub_partitions |-> 4,
                 l1_smem_throughput_per_cycle |-> 128,
                 configurable_smem_capacity |-> 164,
                 register_capacity_per_sm |-> 256,
                 fp16_tensor_core_unit |->
                     ComputeUnit("tensor", "fp16", 4, {<<8, 4, 8>>}, 2),
                 fp32_cuda_core_unit |-> ComputeUnit("vector", "fp32", 64, {<<1>>}, 2),
                 fp16_cuda_core_unit |-> ComputeUnit("vector", "fp16", 64, {<<1>>}, 2),
                 fp64_cuda_core_unit |-> ComputeUnit("vector", "fp64", 32, {<<1>>}, 2),
                 sfu_unit |-> ComputeUnit("vector", "fp32", 16, {<<1>>}, 2),
                 ddr_max_util |-> 90,
                 l2_max_util |-> 90,
                 l1_max_util |-> 90,
                 compute_max_util |-> 90])
    IN  Return(Arch_compute_metrics(s1))

MI250X_set_to_microbench_resets_partitions(self) ==
    Return(Assign(self,
        [freq |-> 1360,
         sm_sub_partitions |-> 1,
         ddr_max_util |-> 100,
         l2_max_util |-> 100,
         l1_max_util |-> 100,
         compute_max_util |-> 100,
         ddr_bandwidth |-> 1654810,
         l2_bandwidth |-> 3234770,
         smem_bandwidth |-> 19491000,
         fp32_cuda_core_flops |-> 19017181,
         fp16_cuda_core_flops |-> 19017181,
         fp16_tensor_flops |-> 298951000]))

\* No compute_metrics call: the measured values are assigned and the rest is kept.
MI250X_set_to_microbench(self) ==
    Return(Assign(self,
        [freq |-> 1360,
         ddr_max_util |-> 100,
         l2_max_util |-> 100,
         l1_max_util |-> 100,
         compute_max_util |-> 100,
         ddr_bandwidth |-> 1654810,
         l2_bandwidth |-> 3234770,
         smem_bandwidth |-> 19491000,
         fp32_cuda_core_flops |-> 19017181,
         fp16_cuda_core_flops |-> 19017181,
         fp16_tensor_flops |-> 298951000]))

MI250X_set_to_ncu(self) ==
    LET s1 == Assign(self,
                [freq |-> 1060,
                 ddr_max_util |-> 90,
                 l2_max_util |-> 90,
                 l1_max_util |-> 90,
                 compute_max_util |-> 90])
    IN  Return(Arch_compute_metrics(s1))

\* --------------------------------------------------- dispatch on the class

Devices == {"H100_PCIE", "H100_SXM", "MI250X"}

Modes == {"set_to_spec", "set_to_microbench", "set_to_ncu"}

\* self.set_to_spec() on an instance of class d
Call_set_to_spec(d, self) ==
    CASE d = "H100_PCIE" -> H100_PCIE_set_to_spec(self)
      [] d = "H100_SXM" -> H100_SXM_set_to_spec(self)
      [] d = "MI250X" -> MI250X_set_to_spec(self)

Call_set_to_microbench(d, self) ==
    CASE d = "H100_PCIE" -> H100_PCIE_set_to_microbench(self)
      [] d = "H100_SXM" -> H100_SXM_set_to_microbench(self)
      [] d = "MI250X" -> MI250X_set_to_microbench(self)

Call_set_to_ncu(d, self) ==
    CASE d = "H100_PCIE" -> H100_PCIE_set_to_ncu(self)
      [] d = "H100_SXM" -> H100_SXM_set_to_ncu(self)
      [] d = "MI250X" -> MI250X_set_to_ncu(self)

\* ------------------------------------------------------------ state machine

\* The derived-metric fields: one FLOPs/s field per slot, and the two bandwidths.
FlopsFields ==
    {"fp16_tensor_flops", "fp8_tensor_flops", "fp4_tensor_flops",
     "fp32_cuda_core_flops", "fp16_cuda_core_flops", "fp64_cuda_core_flops",
     "int32_cuda_core_flops", "sfu_flops"}

BandwidthFields == {"smem_bandwidth", "register_bandwidth"}

DerivedFields == FlopsFields \cup BandwidthFields

Derived(self) == [f \in DerivedFields \cap DOMAIN self |-> self[f]]

\* The attributes a caller assigns between metric computations.
AssignedAttrs == {"sm_count", "freq", "l1_smem_throughput_per_cycle", "sm_sub_partitions"}

AssignedValues == {-1, 0, 1}

\* No compute unit built by a caller, no factory call, no device-name query.
NoneBuilt ==
    /\ cu = NoneUnit
    /\ cf_self = NoneUnit
    /\ cf_args = <<0, 0>>
    /\ cf_ret = 0

NotCalled == [device_id |-> -1, ret |-> "None", exc |-> "none"]

NoneCalled ==
    /\ req = "none"
    /\ gdn = NotCalled

\* The instance right after super().__init__() in the device's __init__.
Init ==
    /\ dev \in Devices
    /\ obj = Arch__init__
    /\ exc = "none"
    /\ last = "Arch.__init__"
    /\ repeated = FALSE
    /\ constructed = FALSE
    /\ nassign = 0
    /\ NoneBuilt
    /\ NoneCalled
    /\ tvm = [cuda |-> <<>>, rocm |-> <<>>]

\* A call of method name on the instance, leaving r; nothing runs after an
\* exception has propagated.
Step(name, r) ==
    /\ dev \in Devices
    /\ exc = "none"
    /\ obj' = r.obj
    /\ exc' = r.exc
    /\ last' = name
    /\ repeated' = (name = last)
    /\ UNCHANGED <<dev, cuVars, req, tvm, gdn>>

\* The rest of the device's __init__: self.set_to_spec().
Device__init__ ==
    /\ last = "Arch.__init__"
    /\ Step("__init__", Call_set_to_spec(dev, obj))
    /\ constructed' = (Call_set_to_spec(dev, obj).exc = "none")
    /\ UNCHANGED nassign

set_to_spec ==
    /\ last # "Arch.__init__"
    /\ Step("set_to_spec", Call_set_to_spec(dev, obj))
    /\ UNCHANGED <<constructed, nassign>>

set_to_microbench ==
    /\ Step("set_to_microbench", Call_set_to_microbench(dev, obj))
    /\ UNCHANGED <<constructed, nassign>>

set_to_ncu ==
    /\ Step("set_to_ncu", Call_set_to_ncu(dev, obj))
    /\ UNCHANGED <<constructed, nassign>>

compute_flops ==
    /\ Step("compute_flops", Return(Arch_compute_flops(obj)))
    /\ UNCHANGED <<constructed, nassign>>

compute_bandwidth ==
    /\ Step("compute_bandwidth", Return(Arch_compute_bandwidth(obj)))
    /\ UNCHANGED <<constructed, nassign>>

compute_metrics ==
    /\ Step("compute_metrics", Return(Arch_compute_metrics(obj)))
    /\ UNCHANGED <<constructed, nassign>>

\* A caller's assignment arch.a = v.
setattr ==
    \E a \in AssignedAttrs, v \in AssignedValues :
        /\ nassign < MaxAssigns
        /\ Step("setattr", Return(SetAttr(obj, a, v)))
        /\ nassign' = nassign + 1
        /\ UNCHANGED constructed

Next ==
    \/ Device__init__
    \/ set_to_spec
    \/ set_to_microbench
    \/ set_to_ncu
    \/ compute_flops
    \/ compute_bandwidth
    \/ compute_metrics
    \/ setattr

Spec == Init /\ [][Next]_vars

\* ------------------------------------------- ComputeUnit used on its own

Shapes == UNION {[1 .. n -> 1 .. MaxDim] : n \in 0 .. MaxShapeLen}

ShapeArgs == {{}} \cup {{s} : s \in Shapes}

new_ComputeUnit ==
    \E instances \in 1 .. MaxCount, shape \in ShapeArgs, ops_per_element \in 1 .. MaxCount :
        /\ cu' = ComputeUnit("tensor", "fp16", instances, shape, ops_per_element)
        /\ cf_self' = NoneUnit
        /\ cf_args' = <<0, 0>>
        /\ cf_ret' = 0
        /\ UNCHANGED archVars

call_calculate_flops ==
    \E sm_count \in (-1) .. MaxArg, freq_hz \in (-1) .. MaxArg :
        /\ cu # NoneUnit
        /\ cf_self' = cu
        /\ cf_args' = <<sm_count, freq_hz>>
        /\ cf_ret' = calculate_flops(cu, sm_count, freq_hz)
        /\ UNCHANGED <<cu, archVars>>

NextCU ==
    \/ new_ComputeUnit
    \/ call_calculate_flops

\* The compute unit is used on its own: one architecture instance, left alone.
InitCU == Init /\ dev = "H100_SXM"

SpecCU == InitCU /\ [][NextCU]_vars

\* ------------------------------------------------------------- the factory

\* Device name -> Arch subclass.  The modules of H100_NVL and A100_SXM are not
\* among the sources, so the names requested below are the mapped names of the
\* three classes that are, and names that are not mapped.
DEVICE_ARCH_MAP ==
    ("NVIDIA H100 PCIe" :> "H100_PCIE") @@
    ("NVIDIA H100 80GB HBM3" :> "H100_SXM") @@
    ("NVIDIA H100 NVL" :> "H100_NVL") @@
    ("NVIDIA A100-SXM4-80GB" :> "A100_SXM") @@
    ("AMD INSTINCT MI250X" :> "MI250X")

DeviceNames ==
    {n \in DOMAIN DEVICE_ARCH_MAP : DEVICE_ARCH_MAP[n] \in Devices}
        \cup {"NVIDIA RTX A6000", "AMD Instinct MI300X VF", ""}

\* DEVICE_ARCH_MAP.get(device_name)
DEVICE_ARCH_MAP_get(device_name) ==
    IF device_name \in DOMAIN DEVICE_ARCH_MAP THEN DEVICE_ARCH_MAP[device_name] ELSE "None"

\* No instance: nothing has been constructed.
NoInstance == [a \in {} |-> 0]

\* create_device_arch(device_name): ValueError for an unmapped name, otherwise
\* arch_class(), i.e. Arch.__init__ followed by the class's set_to_spec().
create_device_arch ==
    \E device_name \in DeviceNames :
        LET arch_class == DEVICE_ARCH_MAP_get(device_name)
            r == Call_set_to_spec(arch_class, Arch__init__)
        IN  /\ req = "none"
            /\ req' = device_name
            /\ IF arch_class = "None"
                  THEN /\ exc' = "ValueError"
                       /\ UNCHANGED <<dev, obj, last, repeated, constructed, nassign>>
                  ELSE /\ dev' = arch_class
                       /\ obj' = r.obj
                       /\ exc' = r.exc
                       /\ last' = "__init__"
                       /\ repeated' = FALSE
                       /\ constructed' = (r.exc = "none")
                       /\ nassign' = 0
            /\ UNCHANGED <<cuVars, tvm, gdn>>

InitFactory ==
    /\ dev = "None"
    /\ obj = NoInstance
    /\ exc = "none"
    /\ last = "none"
    /\ repeated = FALSE
    /\ constructed = FALSE
    /\ nassign = 0
    /\ NoneBuilt
    /\ NoneCalled
    /\ tvm = [cuda |-> <<>>, rocm |-> <<>>]

\* The caller asks the factory for an instance and then uses it.
NextFactory ==
    \/ create_device_arch
    \/ set_to_spec
    \/ set_to_microbench
    \/ set_to_ncu
    \/ compute_flops
    \/ compute_bandwidth
    \/ compute_metrics
    \/ setattr

SpecFactory == InitFactory /\ [][NextFactory]_vars

\* --------------------------------------------------------- get_device_name

CudaNames == {"NVIDIA H100 PCIe", "NVIDIA H100 80GB HBM3"}
RocmNames == {"AMD INSTINCT MI250X", "AMD Instinct MI300X VF"}

\* The devices the runtime enumerates: for each kind, the names of its devices
\* 0, 1, ... (device i is element i + 1 of the sequence).
Runtimes ==
    {[cuda |-> c, rocm |-> r] :
        c \in UNION {[1 .. n -> CudaNames] : n \in 0 .. MaxDevices},
        r \in UNION {[1 .. n -> RocmNames] : n \in 0 .. MaxDevices}}

\* tvm.cuda(device_id).exist, tvm.rocm(device_id).exist
exist(devices, device_id) == device_id >= 0 /\ device_id < Len(devices)

\* tvm.cuda(device_id).device_name, tvm.rocm(device_id).device_name
device_name(devices, device_id) == devices[device_id + 1]

\* The rocm kind asked first.
get_device_name_rocm_first(rt, device_id) ==
    IF exist(rt.rocm, device_id)
      THEN [device_id |-> device_id, ret |-> device_name(rt.rocm, device_id), exc |-> "none"]
      ELSE IF exist(rt.cuda, device_id)
        THEN [device_id |-> device_id, ret |-> device_name(rt.cuda, device_id), exc |-> "none"]
        ELSE [device_id |-> device_id, ret |-> "None", exc |-> "ValueError"]

get_device_name(rt, device_id) ==
    IF exist(rt.cuda, device_id)
      THEN [device_id |-> device_id, ret |-> device_name(rt.cuda, device_id), exc |-> "none"]
      ELSE IF exist(rt.rocm, device_id)
        THEN [device_id |-> device_id, ret |-> device_name(rt.rocm, device_id), exc |-> "none"]
        ELSE [device_id |-> device_id, ret |-> "None", exc |-> "ValueError"]

call_get_device_name ==
    \E device_id \in 0 .. MaxDevices :
        /\ gdn' = get_device_name(tvm, device_id)
        /\ UNCHANGED <<dev, obj, exc, last, repeated, constructed, nassign, req, tvm, cuVars>>

InitName ==
    /\ dev = "H100_SXM"
    /\ obj = Arch__init__
    /\ exc = "none"
    /\ last = "Arch.__init__"
    /\ repeated = FALSE
    /\ constructed = FALSE
    /\ nassign = 0
    /\ NoneBuilt
    /\ NoneCalled
    /\ tvm \in Runtimes

NextName == call_get_device_name

SpecName == InitName /\ [][NextName]_vars

\* ------------------------------------------------------------ properties

\* The slot each FLOPs/s field is computed from.
SlotOf ==
    [f \in FlopsFields |->
        CASE f = "fp16_tensor_flops" -> "fp16_tensor_core_unit"
          [] f = "fp8_tensor_flops" -> "fp8_tensor_core_unit"
          [] f = "fp4_tensor_flops" -> "fp4_tensor_core_unit"
          [] f = "fp32_cuda_core_flops" -> "fp32_cuda_core_unit"
          [] f = "fp16_cuda_core_flops" -> "fp16_cuda_core_unit"
          [] f = "fp64_cuda_core_flops" -> "fp64_cuda_core_unit"
          [] f = "int32_cuda_core_flops" -> "int32_cuda_core_unit"
          [] f = "sfu_flops" -> "sfu_unit"]

UnitAttrs == {SlotOf[f] : f \in FlopsFields}

Populated(self, unit) == unit \in DOMAIN self /\ self[unit] # NoneUnit

\* product(shape), or 1 if shape is empty
Product(shape) ==
    LET P[i \in 0 .. Len(shape)] == IF i = 0 THEN 1 ELSE shape[i] * P[i - 1]
    IN  P[Len(shape)]

\* The value the formulas give a FLOPs/s field for the current scalars and slot.
ExpectedFlops(self, f) ==
    IF Populated(self, SlotOf[f]) /\ self.sm_count > 0 /\ self.freq > 0
    THEN self[SlotOf[f]].instances * Product(self[SlotOf[f]].shape)
            * self[SlotOf[f]].ops_per_element * self.sm_count * self.freq
    ELSE 0

ExpectedSmem(self) ==
    IF self.sm_count > 0 /\ self.freq > 0 /\ self.l1_smem_throughput_per_cycle > 0
    THEN self.sm_count * self.freq * self.l1_smem_throughput_per_cycle
    ELSE 0

ExpectedRegister(self) ==
    IF self.sm_count > 0 /\ self.freq > 0 /\ self.sm_sub_partitions > 0
    THEN self.sm_count * self.freq * self.sm_sub_partitions * 128
    ELSE 0

Expected(self, f) ==
    CASE f \in FlopsFields -> ExpectedFlops(self, f)
      [] f = "smem_bandwidth" -> ExpectedSmem(self)
      [] f = "register_bandwidth" -> ExpectedRegister(self)

\* No derived field the instance has differs from what the formulas give now.
NoStaleField(self) ==
    \A f \in DerivedFields \cap DOMAIN self : self[f] = Expected(self, f)

\* C1: construction (Arch.__init__, then set_to_spec()) completes without
\* raising on every concrete device and leaves the device configured.
C1_ConstructionCompletes ==
    last = "__init__" =>
        /\ exc = "none"
        /\ constructed
        /\ obj.core = dev
        /\ obj.sm_count > 0
        /\ obj.freq > 0

\* C2: right after any mode method returns, after any sequence of mode calls
\* on a constructed device, every derived FLOPs/s and bandwidth field equals
\* the value the formulas give for the current scalars and slots.
C2_ModeEndsRecomputed ==
    (constructed /\ nassign = 0 /\ exc = "none" /\ last \in Modes \cup {"__init__"})
        => NoStaleField(obj)

\* C3: after the compute-throughput pass every slot's FLOPs/s field is
\* instances * product(shape, or 1) * ops_per_element * sm_count * freq when
\* the slot is populated and sm_count > 0 and freq > 0, and 0 otherwise.
C3_ComputeFlops ==
    (exc = "none" /\ last \in {"compute_flops", "compute_metrics"}) =>
        \A f \in FlopsFields : HasAttr(obj, f) /\ obj[f] = ExpectedFlops(obj, f)

\* compute_flops has run on populated slots: one case with positive sm_count
\* and freq, the reached state showing a shaped and an unshaped slot.
C3_Witness ==
    /\ last = "compute_flops"
    /\ dev = "H100_SXM"
    /\ obj.sm_count = 132
    /\ obj.freq = 1440
    /\ obj.fp8_tensor_flops = 4 * (8 * 4 * 32) * 2 * 132 * 1440
    /\ obj.sfu_flops = 16 * 1 * 2 * 132 * 1440
    /\ obj.fp4_tensor_flops = 0

\* C4: after the memory-bandwidth pass smem_bandwidth is sm_count * freq *
\* l1_smem_throughput_per_cycle when the three are positive and 0 otherwise,
\* register_bandwidth is sm_count * freq * sm_sub_partitions * 128 when the
\* three are positive and 0 otherwise, each guarded by its own factors.
C4_ComputeBandwidth ==
    (exc = "none" /\ last \in {"compute_bandwidth", "compute_metrics"}) =>
        /\ obj.smem_bandwidth = ExpectedSmem(obj)
        /\ obj.register_bandwidth = ExpectedRegister(obj)

\* compute_bandwidth has run with a non-positive shared-memory throughput and
\* positive sm_count, freq and sub-partition count: only smem_bandwidth is 0.
C4_Witness ==
    /\ last = "compute_bandwidth"
    /\ obj.sm_count = 114
    /\ obj.freq = 1420
    /\ obj.l1_smem_throughput_per_cycle <= 0
    /\ obj.sm_sub_partitions = 4
    /\ obj.smem_bandwidth = 0
    /\ obj.register_bandwidth = 114 * 1420 * 4 * 128

\* C5: calculate_flops on a unit with instances >= 1, ops_per_element >= 1 and
\* a shape of positive integers returns a non-negative value, zero exactly
\* when sm_count <= 0 or freq_hz <= 0, and leaves the unit as it received it.
C5_CalculateFlops ==
    cf_self # NoneUnit =>
        /\ cu = cf_self
        /\ cf_ret >= 0
        /\ (cf_ret = 0) <=> (cf_args[1] <= 0 \/ cf_args[2] <= 0)

\* calculate_flops has run on a shaped unit with both arguments negative.
C5_Witness ==
    /\ cf_self # NoneUnit
    /\ Len(cu.shape) = MaxShapeLen
    /\ cf_args[1] < 0
    /\ cf_args[2] < 0
    /\ cf_ret = 0

\* C6: once sm_count = 0 or freq = 0, compute_metrics leaves every derived
\* FLOPs/s field and both derived bandwidth fields equal to 0.
C6_ZeroGuard ==
    (exc = "none" /\ last = "compute_metrics" /\ (obj.sm_count = 0 \/ obj.freq = 0)) =>
        \A f \in DerivedFields : HasAttr(obj, f) /\ obj[f] = 0

\* compute_metrics has run on a constructed device, slots populated, after a
\* caller set sm_count to 0 and left freq positive.
C6_Witness ==
    /\ constructed
    /\ last = "compute_metrics"
    /\ nassign = 1
    /\ obj.sm_count = 0
    /\ obj.freq > 0
    /\ \A f \in FlopsFields \ {"fp4_tensor_flops", "int32_cuda_core_flops"} :
            Populated(obj, SlotOf[f])
    /\ \A f \in DerivedFields : obj[f] = 0

\* C7 as stated: on a constructed device, a FLOPs/s field whose slot the
\* device never instantiates is absent from the instance.
C7_AbsentSlotFieldAbsent ==
    constructed =>
        \A f \in FlopsFields : ~HasAttr(obj, SlotOf[f]) => ~HasAttr(obj, f)

\* C7, amended: on a constructed device, a FLOPs/s field whose slot the device
\* never instantiates is present and holds 0, in every state reachable by
\* mode calls, metric computation and callers' assignments.
C7_AbsentSlotFieldZero ==
    constructed =>
        \A f \in FlopsFields : ~HasAttr(obj, SlotOf[f]) => (HasAttr(obj, f) /\ obj[f] = 0)

\* A constructed MI250X, which instantiates no fp8, fp4 or int32 unit, after
\* set_to_microbench: the three fields exist and hold 0.
C7_Witness ==
    /\ constructed
    /\ dev = "MI250X"
    /\ last = "set_to_microbench"
    /\ \A u \in {"fp8_tensor_core_unit", "fp4_tensor_core_unit", "int32_cuda_core_unit"} :
            ~HasAttr(obj, u)
    /\ obj.fp8_tensor_flops = 0
    /\ obj.fp4_tensor_flops = 0
    /\ obj.int32_cuda_core_flops = 0
    /\ obj.fp16_tensor_flops > 0

\* C8: a mode method invoked right after the same mode method returned leaves
\* every derived-metric field as the first invocation left it.
C8_Idempotent ==
    [][(last \in Modes /\ last' = last /\ exc' = "none")
            => Derived(obj') = Derived(obj)]_vars

\* The same mode has run twice in a row on a constructed device with
\* non-zero derived metrics.
C8_Witness ==
    /\ constructed
    /\ repeated
    /\ last \in Modes
    /\ exc = "none"
    /\ obj.fp16_tensor_flops > 0
    /\ obj.register_bandwidth > 0

\* The attributes a microbench or profiler override may change: operating
\* frequency, utilization ceilings, measured bandwidths and derived fields.
OverrideAttrs ==
    {"freq", "base_freq", "max_freq",
     "ddr_max_util", "l2_max_util", "l1_max_util", "compute_max_util",
     "ddr_bandwidth", "l2_bandwidth", "int8_flops"} \cup DerivedFields

\* C9: set_to_microbench and set_to_ncu change nothing but the operating
\* frequency, the utilization ceilings, the measured bandwidths and the
\* derived fields: sm_count, capacities, partition counts,
\* l1_smem_throughput_per_cycle, the device name and every slot are kept.
C9_ModeIndependence ==
    [][(last' \in {"set_to_microbench", "set_to_ncu"})
            => /\ DOMAIN obj' \ OverrideAttrs = DOMAIN obj \ OverrideAttrs
               /\ \A a \in DOMAIN obj \ OverrideAttrs : obj'[a] = obj[a]]_vars

\* A constructed MI250X on which set_to_microbench has just run, no caller
\* assignment made: the override's frequency with the spec's topology and slots.
C9_Witness ==
    /\ constructed
    /\ nassign = 0
    /\ dev = "MI250X"
    /\ last = "set_to_microbench"
    /\ obj.freq = 1360
    /\ obj.ddr_max_util = 100
    /\ obj.sm_count = 110
    /\ obj.sm_sub_partitions = 4
    /\ obj.core = "MI250X"
    /\ Populated(obj, "fp64_cuda_core_unit")

\* C10: the state a completed set_to_spec() leaves (all scalars including
\* freq, all slots, all derived fields) is the same after every history of
\* mode calls: here, the one it leaves after set_to_microbench() on the
\* instance Arch.__init__ built.
C10_SpecStateHistoryFree ==
    (exc = "none" /\ nassign = 0 /\ last \in {"set_to_spec", "__init__"}) =>
        obj = Call_set_to_spec(dev, Call_set_to_microbench(dev, Arch__init__).obj).obj

\* C11: create_device_arch(name) raises ValueError and constructs nothing for a
\* name that is not in DEVICE_ARCH_MAP; for a mapped name it returns an
\* instance of the mapped class, constructed without error, in that class's
\* spec state with every derived metric computed from its inputs.
\* Fails for "NVIDIA H100 PCIe": H100_PCIE() raises AttributeError (see C1).
C11_CreateDeviceArch ==
    /\ (req # "none" /\ req \notin DOMAIN DEVICE_ARCH_MAP) =>
           (exc = "ValueError" /\ dev = "None" /\ DOMAIN obj = {} /\ ~constructed)
    /\ (req \in DOMAIN DEVICE_ARCH_MAP /\ last = "__init__") =>
           /\ exc = "none"
           /\ constructed
           /\ dev = DEVICE_ARCH_MAP[req]
           /\ obj.core = dev
           /\ obj = Call_set_to_spec(dev, Arch__init__).obj
           /\ obj.sm_count > 0 /\ obj.freq > 0
           /\ DerivedFields \subseteq DOMAIN obj
           /\ NoStaleField(obj)

\* The same statement with the failing class left out: it holds.
C11_OtherNames ==
    req # "NVIDIA H100 PCIe" => C11_CreateDeviceArch

\* C12: get_device_name(device_id) returns the cuda device's name when a cuda
\* device exists at the index, also when a rocm device exists there too;
\* otherwise the rocm device's name when a rocm device exists at the index;
\* and raises ValueError exactly when neither kind has a device at the index.
C12_GetDeviceName ==
    gdn.device_id >= 0 =>
        LET i == gdn.device_id + 1
            hasCuda == i <= Len(tvm.cuda)
            hasRocm == i <= Len(tvm.rocm)
        IN  /\ hasCuda => (gdn.exc = "none" /\ gdn.ret = tvm.cuda[i])
            /\ (~hasCuda /\ hasRocm) => (gdn.exc = "none" /\ gdn.ret = tvm.rocm[i])
            /\ (gdn.exc = "ValueError") <=> (~hasCuda /\ ~hasRocm)
            /\ gdn.exc \in {"none", "ValueError"}

\* Index 1 has a device of each kind, and the call returned the cuda one's name.
C12_Witness ==
    /\ gdn.device_id = 1
    /\ Len(tvm.cuda) = 2
    /\ Len(tvm.rocm) = 2
    /\ tvm.cuda[2] = "NVIDIA H100 80GB HBM3"
    /\ tvm.rocm[2] = "AMD INSTINCT MI250X"
    /\ gdn.ret = "NVIDIA H100 80GB HBM3"
    /\ gdn.exc = "none"

\* C13: compute_metrics writes the derived-metric fields and nothing else:
\* every other attribute (sm_count, freq, DRAM and L2 bandwidth and capacity,
\* partition counts, shared-memory throughput, utilization ceilings, slots)
\* keeps its value, every derived field holds what the formulas give for the
\* current inputs, and a second run right after the first changes nothing.
C13_ComputeMetricsFrame ==
    [][(last' = "compute_metrics")
            => /\ exc' = "none"
               /\ DOMAIN obj' = DOMAIN obj \cup DerivedFields
               /\ \A a \in DOMAIN obj \ DerivedFields : obj'[a] = obj[a]
               /\ NoStaleField(obj')
               /\ (last = "compute_metrics" => obj' = obj)]_vars

\* compute_metrics has run twice in a row on a constructed MI250X after
\* set_to_microbench: the measured shared-memory bandwidth has been replaced
\* by the derived one, the measured DRAM bandwidth is still there.
C13_Witness ==
    /\ constructed
    /\ repeated
    /\ last = "compute_metrics"
    /\ exc = "none"
    /\ dev = "MI250X"
    /\ obj.freq = 1360
    /\ obj.ddr_bandwidth = 1654810
    /\ obj.smem_bandwidth = 110 * 1360 * 128
    /\ obj.fp16_tensor_flops > 0

\* The values set_to_microbench assigns on the devices that assign measured
\* DRAM, L2 and shared-memory bandwidths (MHz, 1e6 B/s).
MicrobenchMeasured ==
    ("H100_PCIE" :> [freq |-> 1420, ddr_bandwidth |-> 1864220,
                     l2_bandwidth |-> 7598480, smem_bandwidth |-> 20720600]) @@
    ("MI250X" :> [freq |-> 1360, ddr_bandwidth |-> 1654810,
                  l2_bandwidth |-> 3234770, smem_bandwidth |-> 19491000])

\* C14: when set_to_microbench returns on H100_PCIE or MI250X, ddr_bandwidth,
\* l2_bandwidth and smem_bandwidth hold the microbenchmark values the method
\* assigns, the four utilization ceilings are 1.0 and freq is the
\* microbenchmark frequency.
\* Fails on H100_PCIE: compute_metrics(), called after the assignments,
\* replaces smem_bandwidth by sm_count * freq * l1_smem_throughput_per_cycle.
C14_MicrobenchMeasured ==
    (last = "set_to_microbench" /\ exc = "none" /\ dev \in DOMAIN MicrobenchMeasured) =>
        /\ obj.freq = MicrobenchMeasured[dev].freq
        /\ obj.ddr_bandwidth = MicrobenchMeasured[dev].ddr_bandwidth
        /\ obj.l2_bandwidth = MicrobenchMeasured[dev].l2_bandwidth
        /\ obj.smem_bandwidth = MicrobenchMeasured[dev].smem_bandwidth
        /\ \A u \in {"ddr_max_util", "l2_max_util", "l1_max_util", "compute_max_util"} :
              obj[u] = 100

\* The same statement without the shared-memory bandwidth, and the whole of it
\* on MI250X: both hold.
C14_OtherFields ==
    (last = "set_to_microbench" /\ exc = "none" /\ dev \in DOMAIN MicrobenchMeasured) =>
        /\ obj.freq = MicrobenchMeasured[dev].freq
        /\ obj.ddr_bandwidth = MicrobenchMeasured[dev].ddr_bandwidth
        /\ obj.l2_bandwidth = MicrobenchMeasured[dev].l2_bandwidth
        /\ dev = "MI250X" => obj.smem_bandwidth = MicrobenchMeasured[dev].smem_bandwidth
        /\ \A u \in {"ddr_max_util", "l2_max_util", "l1_max_util", "compute_max_util"} :
              obj[u] = 100

============================================================================
